---- MODULE Spec2Model ----
(***************************************************************************)
(* State-machine model of tfmf.MatrixFactorizer (src/tfmf/mf.py): the      *)
(* estimator objects of one Python process, the process-wide numpy random  *)
(* generator they all draw their batches from, and the TensorFlow model    *)
(* (TFModel) each estimator owns.                                          *)
(*                                                                         *)
(* Floating point tensors are abstracted to small integer digests: the     *)
(* parameters of a TFModel are one number, a training step maps            *)
(* (parameters, batch) to (parameters', loss) deterministically.  The      *)
(* inputs scope of the graph (targets, data_weights) is modelled exactly   *)
(* in fixed point in the second part of the module.                        *)
(***************************************************************************)
EXTENDS Integers, Sequences, FiniteSets, TLC

VARIABLES est, rng, result, tfcfg, fed, inputs

vars == <<est, rng, result, tfcfg, fed, inputs>>

----------------------------------------------------------------------------
(* Bounds of the model.                                                    *)

\* largest number of rows / columns of a matrix or of an explicit shape
MaxDim == 2
\* largest n_iter an estimator is constructed with
MaxIter == 2
\* fit / partial_fit are not started when history could outgrow this length
MaxHist == 3
\* largest raw value fed to the inputs scope, in units of 1/Scale
MaxVal == 4

----------------------------------------------------------------------------
(* Values of the modelled Python objects.                                  *)

Instances == {1, 2}

\* self.shape without its last component n_components; <<>> is (None, None)
NoShape == <<>>

\* self._tf = None
NoTF == [null |-> TRUE, shape |-> NoShape, params |-> 0, steps |-> 0]

\* a scipy.sparse matrix of shape (n, k)
Matrix(n, k) == [kind |-> "sparse", shape |-> <<n, k>>]

\* an argument that is no matrix (a Python list): no .shape, no 2-D indexing
NotAMatrix == [kind |-> "list", shape |-> NoShape]

Matrices == {Matrix(n, k) : n \in 1..MaxDim, k \in 1..MaxDim}

\* what callers pass to fit / partial_fit
Arguments == Matrices \cup {NotAMatrix}

\* where TensorFlow places the embedding lookups of a session
Devices == {"CPU", "GPU"}

\* R[i, j] of the matrices passed in: a fixed sparse pattern, 0 where absent
MatrixValue(data, i, j) == IF (i + j) % 2 = 0 THEN i + j + 1 ELSE 0

\* rows / cols arrays of length l passed to predict (co-indexed, so both of
\* one length)
IndexArrays(l) == [1..l -> 0..MaxDim]

\* the constructor arguments the model varies; the others keep their defaults
\* (implicit=False: targets are the values, every weight is 1)
Configs ==
    [n_iter : 1..MaxIter, batch_size : {1, 2}, warm_start : BOOLEAN,
     random_state : {0, 1}]

\* what the last call was and how it ended: the exception it raised ("none"
\* when it returned), the iterations of the training loop it completed, the
\* batches its sampler drew, its arguments and the scores it returned
NoResult ==
    [op |-> "none", inst |-> 0, exc |-> "none", iters |-> 0, sampled |-> <<>>,
     data |-> NotAMatrix, shape |-> NoShape, rows |-> <<>>, cols |-> <<>>,
     scores |-> <<>>]

----------------------------------------------------------------------------
(* numpy's global random generator (np.random.seed / np.random.randint).   *)

\* number of states of the abstract generator: two per index it can draw
RngMod == 2 * MaxDim

\* np.random.seed(seed)
np_random_seed(seed) == seed % RngMod

\* the generator's state after one draw (a full-period congruential step)
NextRng(r) == (r + RngMod - 1) % RngMod

\* one draw of np.random.randint(high) in state r
RandInt(r, high) == (r \div 2) % high

RECURSIVE np_random_randint(_, _, _)
\* np.random.randint(high, size=size): the array drawn and the state after
np_random_randint(r, high, size) ==
    IF size = 0 THEN [rng |-> r, out |-> <<>>]
    ELSE LET rest == np_random_randint(NextRng(r), high, size - 1)
         IN  [rng |-> rest.rng, out |-> <<RandInt(r, high)>> \o rest.out]

----------------------------------------------------------------------------
(* TFModel: the parameter store, its training step and prediction graph.   *)

\* number of values of the digest that stands for the parameter tensors
ParamMod == 2

\* sum of the elements of a batch array

SeqSum(s) ==
    LET RECURSIVE Sum(_)
        Sum(i) == IF i = 0 THEN 0 ELSE s[i] + Sum(i - 1)
    IN  Sum(Len(s))

\* TFModel.__init__: variables of the given shape, initialised under
\* tf.set_random_seed(random_state); a negative dimension is rejected
TFModel_init(shape, random_state) ==
    IF shape[1] < 0 \/ shape[2] < 0
    THEN [exc |-> "ValueError", tf |-> NoTF]
    ELSE [exc |-> "none",
          tf  |-> [null |-> FALSE, shape |-> shape,
                   params |-> (random_state + shape[1] + 2 * shape[2]) % ParamMod,
                   steps |-> 0]]

\* every id is a valid index of the variables of tf
InRange(tf, rows, cols) ==
    /\ \A x \in 1..Len(rows) : rows[x] >= 0 /\ rows[x] < tf.shape[1]
    /\ \A x \in 1..Len(cols) : cols[x] >= 0 /\ cols[x] < tf.shape[2]

\* TFModel.train: one optimizer step, returning the loss.  The embedding
\* lookup of an out-of-range id raises on a CPU kernel and yields zeros on a
\* GPU kernel (tf.gather).
TFModel_train(tf, rows, cols, values, dev) ==
    IF ~InRange(tf, rows, cols) /\ dev = "CPU"
    THEN [exc |-> "InvalidArgumentError", tf |-> tf, loss |-> 0]
    ELSE LET digest == SeqSum(rows) + 2 * SeqSum(cols) + SeqSum(values)
         IN  [exc  |-> "none",
              tf   |-> [tf EXCEPT !.params = (3 * @ + digest + 1) % ParamMod,
                                  !.steps = @ + 1],
              loss |-> (tf.params + digest) % ParamMod]

\* TFModel.predict: one score per (rows[x], cols[x])
TFModel_predict(tf, rows, cols, dev) ==
    IF ~InRange(tf, rows, cols) /\ dev = "CPU"
    THEN [exc |-> "InvalidArgumentError", scores |-> <<>>]
    ELSE [exc |-> "none",
          scores |-> [x \in 1..Len(rows) |->
                        IF InRange(tf, <<rows[x]>>, <<cols[x]>>)
                        THEN (tf.params + rows[x] + 2 * cols[x]) % ParamMod
                        ELSE 0]]

----------------------------------------------------------------------------
(* MatrixFactorizer.                                                       *)

\* _fresh_session as it would be if it forgot to empty history
_fresh_session_keeps_history(e) == [e EXCEPT !.tf = NoTF]

\* MatrixFactorizer._fresh_session
_fresh_session(e) == [e EXCEPT !.tf = NoTF, !.history = <<>>]

\* MatrixFactorizer.__init__ (np.random.seed is applied by the action)
MatrixFactorizer_init(cfg) ==
    _fresh_session(
        [n_iter |-> cfg.n_iter, batch_size |-> cfg.batch_size,
         warm_start |-> cfg.warm_start, random_state |-> cfg.random_state,
         shape |-> NoShape, tf |-> NoTF, history |-> <<>>])

\* MatrixFactorizer._tf_init: the TFModel is built for self.shape; when its
\* constructor raises, self._tf keeps its old value
_tf_init(e) ==
    LET m == TFModel_init(e.shape, e.random_state)
    IN  IF m.exc # "none" THEN [exc |-> m.exc, est |-> e]
        ELSE [exc |-> "none", est |-> [e EXCEPT !.tf = m.tf]]

\* MatrixFactorizer.init_with_shape: self.shape is assigned first (n and k
\* are integers here, which int() leaves as they are)
init_with_shape(e, n, k) == _tf_init([e EXCEPT !.shape = <<n, k>>])

\* MatrixFactorizer._get_batch: indices are drawn from self.shape with the
\* global generator, values are looked up in the matrix passed in
_get_batch(e, r, data) ==
    IF e.shape[1] <= 0
    THEN [exc |-> "ValueError", rng |-> r, rows |-> <<>>, cols |-> <<>>,
          vals |-> <<>>]
    ELSE LET R == np_random_randint(r, e.shape[1], e.batch_size) IN
    IF e.shape[2] <= 0
    THEN [exc |-> "ValueError", rng |-> R.rng, rows |-> R.out, cols |-> <<>>,
          vals |-> <<>>]
    ELSE LET C == np_random_randint(R.rng, e.shape[2], e.batch_size) IN
    IF data.kind # "sparse"
    THEN [exc |-> "TypeError", rng |-> C.rng, rows |-> R.out, cols |-> C.out,
          vals |-> <<>>]
    ELSE IF \E x \in 1..e.batch_size :
               R.out[x] >= data.shape[1] \/ C.out[x] >= data.shape[2]
    THEN [exc |-> "IndexError", rng |-> C.rng, rows |-> R.out, cols |-> C.out,
          vals |-> <<>>]
    ELSE [exc |-> "none", rng |-> C.rng, rows |-> R.out, cols |-> C.out,
          vals |-> [x \in 1..e.batch_size |->
                      MatrixValue(data, R.out[x], C.out[x])]]

RECURSIVE TrainingLoop_logs_failure(_, _, _, _, _)
\* the loop as it would be if a failed iteration still appended a loss
TrainingLoop_logs_failure(e, r, data, i, dev) ==
    IF i = e.n_iter
    THEN [exc |-> "none", est |-> e, rng |-> r, iters |-> i, sampled |-> <<>>]
    ELSE LET b == _get_batch(e, r, data) IN
    IF b.exc # "none"
    THEN [exc |-> b.exc, est |-> [e EXCEPT !.history = Append(@, 0)],
          rng |-> b.rng, iters |-> i, sampled |-> << <<b.rows, b.cols>> >>]
    ELSE LET t == TFModel_train(e.tf, b.rows, b.cols, b.vals, dev) IN
    IF t.exc # "none"
    THEN [exc |-> t.exc, est |-> [e EXCEPT !.history = Append(@, 0)],
          rng |-> b.rng, iters |-> i, sampled |-> << <<b.rows, b.cols>> >>]
    ELSE LET rest == TrainingLoop_logs_failure(
                        [e EXCEPT !.tf = t.tf, !.history = Append(@, t.loss)],
                        b.rng, data, i + 1, dev)
         IN  [rest EXCEPT !.sampled = << <<b.rows, b.cols>> >> \o @]

RECURSIVE TrainingLoop(_, _, _, _, _)
\* the for loop of partial_fit from iteration i on; an exception leaves it
TrainingLoop(e, r, data, i, dev) ==
    IF i = e.n_iter
    THEN [exc |-> "none", est |-> e, rng |-> r, iters |-> i, sampled |-> <<>>]
    ELSE LET b == _get_batch(e, r, data) IN
    IF b.exc # "none"
    THEN [exc |-> b.exc, est |-> e, rng |-> b.rng, iters |-> i,
          sampled |-> << <<b.rows, b.cols>> >>]
    ELSE LET t == TFModel_train(e.tf, b.rows, b.cols, b.vals, dev) IN
    IF t.exc # "none"
    THEN [exc |-> t.exc, est |-> e, rng |-> b.rng, iters |-> i,
          sampled |-> << <<b.rows, b.cols>> >>]
    ELSE LET rest == TrainingLoop(
                        [e EXCEPT !.tf = t.tf, !.history = Append(@, t.loss)],
                        b.rng, data, i + 1, dev)
         IN  [rest EXCEPT !.sampled = << <<b.rows, b.cols>> >> \o @]

\* MatrixFactorizer.partial_fit
partial_fit(e, r, data, dev) ==
    IF e.tf.null
    THEN IF data.kind # "sparse"
         THEN [exc |-> "AttributeError", est |-> e, rng |-> r, iters |-> 0,
               sampled |-> <<>>]
         ELSE LET s == init_with_shape(e, data.shape[1], data.shape[2])
              IN  IF s.exc # "none"
                  THEN [exc |-> s.exc, est |-> s.est, rng |-> r, iters |-> 0,
                        sampled |-> <<>>]
                  ELSE TrainingLoop(s.est, r, data, 0, dev)
    ELSE TrainingLoop(e, r, data, 0, dev)

\* fit as it would be if it ignored warm_start
fit_always_fresh(e, r, data, dev) ==
    partial_fit(_fresh_session(e), r, data, dev)

\* MatrixFactorizer.fit
fit(e, r, data, dev) ==
    partial_fit(IF ~e.warm_start THEN _fresh_session(e) ELSE e, r, data, dev)

\* predict as it would be if it answered with defaults without a store
predict_returns_defaults(e, rows, cols, dev) ==
    IF e.tf.null
    THEN [exc |-> "none", scores |-> [x \in 1..Len(rows) |-> 0]]
    ELSE TFModel_predict(e.tf, rows, cols, dev)

\* MatrixFactorizer.predict: self._tf.predict(rows, cols)
predict(e, rows, cols, dev) ==
    IF e.tf.null
    THEN [exc |-> "AttributeError", scores |-> <<>>]
    ELSE TFModel_predict(e.tf, rows, cols, dev)

----------------------------------------------------------------------------
(* Actions: one public operation of one estimator of the process.          *)

\* the estimators that exist in the process
Live == {i \in Instances : est[i].live}

Obj(i) == est[i].obj

\* a call that must not start: history is kept within MaxHist
Room(e, cold) ==
    (IF cold THEN 0 ELSE Len(e.history)) + e.n_iter <= MaxHist

Construct(i, cfg) ==
    /\ est[i].live
    /\ est' = [est EXCEPT ![i].obj = MatrixFactorizer_init(cfg)]
    /\ rng' = np_random_seed(cfg.random_state)
    /\ result' = [NoResult EXCEPT !.op = "__init__", !.inst = i]
    /\ UNCHANGED <<tfcfg, fed, inputs>>

InitWithShape(i, n, k) ==
    /\ est[i].live
    /\ LET s == init_with_shape(Obj(i), n, k)
       IN  /\ est' = [est EXCEPT ![i].obj = s.est]
           /\ result' = [NoResult EXCEPT !.op = "init_with_shape", !.inst = i,
                                         !.exc = s.exc, !.shape = <<n, k>>]
    /\ UNCHANGED <<rng, tfcfg, fed, inputs>>

Fit(i, data, dev) ==
    /\ est[i].live
    /\ Room(Obj(i), ~Obj(i).warm_start)
    /\ LET f == fit(Obj(i), rng, data, dev)
       IN  /\ est' = [est EXCEPT ![i].obj = f.est]
           /\ rng' = f.rng
           /\ result' = [NoResult EXCEPT !.op = "fit", !.inst = i,
                                         !.exc = f.exc, !.iters = f.iters,
                                         !.sampled = f.sampled, !.data = data]
    /\ UNCHANGED <<tfcfg, fed, inputs>>

PartialFit(i, data, dev) ==
    /\ est[i].live
    /\ Room(Obj(i), FALSE)
    /\ LET f == partial_fit(Obj(i), rng, data, dev)
       IN  /\ est' = [est EXCEPT ![i].obj = f.est]
           /\ rng' = f.rng
           /\ result' = [NoResult EXCEPT !.op = "partial_fit", !.inst = i,
                                         !.exc = f.exc, !.iters = f.iters,
                                         !.sampled = f.sampled, !.data = data]
    /\ UNCHANGED <<tfcfg, fed, inputs>>

Predict(i, rows, cols, dev) ==
    /\ est[i].live
    /\ Len(rows) = Len(cols)
    /\ LET p == predict(Obj(i), rows, cols, dev)
       IN  result' = [NoResult EXCEPT !.op = "predict", !.inst = i,
                                      !.exc = p.exc, !.rows = rows,
                                      !.cols = cols, !.scores = p.scores]
    /\ UNCHANGED <<est, rng, tfcfg, fed, inputs>>

------------------------------------------------------------------
----------------------------------------------------------------------------
(* The inputs scope of the TFModel graph, in fixed point.  Raw values and   *)
(* alpha are counted in units of 1/Scale, logarithms in units of 1/LogUnit, *)
(* weights in units of 1/WeightOne.                                         *)

Scale == 2
LogUnit == 100
WeightOne == Scale * Scale * LogUnit

\* tf.log1p(v / Scale) in units of 1/LogUnit, rounded down; beyond the table
\* its last entry, a lower bound of the increasing function
tf_log1p(v) ==
    CASE v = 0 -> 0   [] v = 1 -> 40  [] v = 2 -> 69  [] v = 3 -> 91
      [] v = 4 -> 109 [] v = 5 -> 125 [] v = 6 -> 138 [] v = 7 -> 150
      [] OTHER -> 160

\* tf.clip_by_value(v, lo, hi)
tf_clip_by_value(v, lo, hi) == IF v < lo THEN lo ELSE IF v > hi THEN hi ELSE v

\* targets of one fed value, in units of 1/Scale
Target(cfg, v) ==
    IF cfg.implicit THEN tf_clip_by_value(v, 0, Scale) ELSE v

\* data_weights of one fed value, in units of 1/WeightOne
DataWeight(cfg, v) ==
    IF cfg.implicit
    THEN IF cfg.log_weights
         THEN WeightOne + cfg.alpha * tf_log1p(v) * Scale
         ELSE WeightOne + cfg.alpha * v * LogUnit
    ELSE WeightOne

\* the targets and data_weights tensors computed from the values placeholder
InputsScope(cfg, values) ==
    [targets      |-> [x \in 1..Len(values) |-> Target(cfg, values[x])],
     data_weights |-> [x \in 1..Len(values) |-> DataWeight(cfg, values[x])]]

\* implicit, log_weights and alpha a TFModel is built with (alpha >= 0)
TFConfigs == [implicit : BOOLEAN, log_weights : BOOLEAN, alpha : 0..2]

\* batches of raw values (non-negative) fed to a training step
ValueBatches == UNION {[1..l -> 0..MaxVal] : l \in 1..2}

NoTFConfig == [implicit |-> FALSE, log_weights |-> FALSE, alpha |-> 0]
NoInputs == [targets |-> <<>>, data_weights |-> <<>>]

\* TFModel.__init__ with the flags of cfg: a new graph, nothing fed yet
BuildGraph(cfg) ==
    /\ tfcfg' = cfg
    /\ fed' = <<>>
    /\ inputs' = NoInputs
    /\ UNCHANGED <<est, rng, result>>

\* TFModel.train feeds a batch of values to the inputs scope
FeedValues(values) ==
    /\ fed' = values
    /\ inputs' = InputsScope(tfcfg, values)
    /\ UNCHANGED <<est, rng, result, tfcfg>>

----------------------------------------------------------------------------
(* Spec: the life of one estimator.                                        *)

\* an instance slot of the process that holds no estimator
Dead ==
    [live |-> FALSE,
     obj  |-> MatrixFactorizer_init(
                 [n_iter |-> 1, batch_size |-> 1, warm_start |-> FALSE,
                  random_state |-> 0])]

\* the state after MatrixFactorizer(cfg) was constructed as the only estimator
Constructed(cfg) ==
    /\ est = [i \in Instances |->
                IF i = 1
                THEN [live |-> TRUE, obj |-> MatrixFactorizer_init(cfg)]
                ELSE Dead]
    /\ rng = np_random_seed(cfg.random_state)
    /\ result = [NoResult EXCEPT !.op = "__init__", !.inst = 1]
    /\ tfcfg = NoTFConfig
    /\ fed = <<>>
    /\ inputs = NoInputs

\* random_state only seeds the generators; one seed is enough for one
\* estimator, SpecProc below uses two
Init == \E cfg \in {c \in Configs : c.random_state = 0} : Constructed(cfg)

\* rows take every kind of value, bad ones included; columns the good ones
\* (the code treats the two dimensions alike)
Next ==
    \/ \E i \in Instances, n \in -1..MaxDim, k \in 1..MaxDim :
          InitWithShape(i, n, k)
    \/ \E i \in Instances, data \in Arguments, dev \in Devices :
          Fit(i, data, dev)
    \/ \E i \in Instances, data \in Arguments, dev \in Devices :
          PartialFit(i, data, dev)

Spec == Init /\ [][Next]_vars

----------------------------------------------------------------------------
(* SpecPredict: predictions of one estimator between its other calls.      *)

\* the matrix of the scenarios that train on one matrix only
ScenarioMatrix == Matrix(MaxDim, MaxDim)

InitPredict ==
    \E cfg \in {c \in Configs : /\ c.random_state = 0
                                /\ c.batch_size = 1
                                /\ ~c.warm_start
                                /\ c.n_iter = MaxIter} : Constructed(cfg)

NextPredict ==
    \/ \E i \in Instances, n \in -1..MaxDim, k \in 1..MaxDim :
          InitWithShape(i, n, k)
    \/ \E i \in Instances, data \in {ScenarioMatrix, NotAMatrix},
          dev \in Devices : Fit(i, data, dev)
    \/ \E i \in Instances, dev \in Devices : PartialFit(i, ScenarioMatrix, dev)
    \/ \E i \in Instances, l \in 1..2, dev \in Devices :
          \E rows \in IndexArrays(l), cols \in IndexArrays(l) :
             Predict(i, rows, cols, dev)

SpecPredict == InitPredict /\ [][NextPredict]_vars

----------------------------------------------------------------------------
(* SpecProc: two estimators of one process, trained on one matrix.         *)


InitProc ==
    /\ \E c1 \in Configs, c2 \in Configs :
          /\ est = [i \in Instances |->
                      [live |-> TRUE,
                       obj  |-> MatrixFactorizer_init(IF i = 1 THEN c1 ELSE c2)]]
          /\ rng = np_random_seed(c2.random_state)
    /\ result = [NoResult EXCEPT !.op = "__init__", !.inst = 2]
    /\ tfcfg = NoTFConfig
    /\ fed = <<>>
    /\ inputs = NoInputs

NextProc ==
    \/ \E i \in Instances, cfg \in Configs : Construct(i, cfg)
    \/ \E i \in Instances, dev \in Devices : PartialFit(i, ScenarioMatrix, dev)

SpecProc == InitProc /\ [][NextProc]_vars

----------------------------------------------------------------------------
(* SpecInputs: graphs built with every flag combination, batches fed.      *)

InitInputs ==
    /\ est = [i \in Instances |-> Dead]
    /\ rng = 0
    /\ result = NoResult
    /\ tfcfg \in TFConfigs
    /\ fed = <<>>
    /\ inputs = NoInputs

NextInputs ==
    \/ \E cfg \in TFConfigs : BuildGraph(cfg)
    \/ \E values \in ValueBatches : FeedValues(values)

SpecInputs == InitInputs /\ [][NextInputs]_vars

----------------------------------------------------------------------------
(* Properties.                                                             *)

\* the training calls
TrainingOps == {"fit", "partial_fit"}

\* History(i) and Store(i) before a step, History(i)' and Store(i)' after it
History(i) == est[i].obj.history
Store(i) == est[i].obj.tf

\* C1: a warm call (partial_fit, or fit with warm_start=true) that completes
\* appends exactly n_iter losses to history, one per training step applied to
\* the store, and leaves every entry that was there before in its place; so k
\* such calls in a row on an empty history leave k * n_iter entries.
C1_WarmCallAppends ==
    [][\A i \in Instances :
          (/\ result'.inst = i
           /\ result'.exc = "none"
           /\ \/ result'.op = "partial_fit"
              \/ result'.op = "fit" /\ Obj(i).warm_start)
          => /\ Len(History(i)') = Len(History(i)) + Obj(i).n_iter
             /\ SubSeq(History(i)', 1, Len(History(i))) = History(i)
             /\ Store(i)'.steps =
                   (IF Store(i).null THEN 0 ELSE Store(i).steps) + Obj(i).n_iter
      ]_vars

\* a warm partial_fit has returned with the losses of at least two calls, all
\* of them of the current store
C1_Witness ==
    /\ result.op = "partial_fit"
    /\ result.exc = "none"
    /\ Len(History(1)) >= 2 * Obj(1).n_iter
    /\ Store(1).steps = Len(History(1))

\* C2: with warm_start=false a completed fit(matrix) ends with n_iter losses
\* in history and a store allocated in this call for the shape of the matrix.
C2_ColdFitStartsOver ==
    \A i \in Instances :
       (/\ result.inst = i
        /\ result.op = "fit"
        /\ result.exc = "none"
        /\ ~Obj(i).warm_start)
       => /\ Len(History(i)) = Obj(i).n_iter
          /\ ~Store(i).null
          /\ Store(i).shape = result.data.shape
          /\ Obj(i).shape = result.data.shape
          /\ Store(i).steps = Obj(i).n_iter

\* a cold fit has returned for a 1 x 2 matrix with n_iter = 2
C2_Witness ==
    /\ result.op = "fit"
    /\ result.exc = "none"
    /\ ~Obj(1).warm_start
    /\ Obj(1).n_iter = 2
    /\ result.data = Matrix(1, 2)

\* C3 as stated: predict on an estimator without a store fails with a
\* NotInitializedError and returns no scores; with a store it returns what
\* the prediction graph of that store returns.
C3_NotInitializedError ==
    \A i \in Instances :
       (result.inst = i /\ result.op = "predict")
       => IF Store(i).null
          THEN result.exc = "NotInitializedError" /\ result.scores = <<>>
          ELSE \E dev \in Devices :
                  [exc |-> result.exc, scores |-> result.scores]
                     = TFModel_predict(Store(i), result.rows, result.cols, dev)

\* C3 amended: predict on an estimator without a store fails with the
\* AttributeError of self._tf being None and returns no scores; with a store
\* it returns what the prediction graph of that store returns.
C3_AttributeError ==
    \A i \in Instances :
       (result.inst = i /\ result.op = "predict")
       => IF Store(i).null
          THEN result.exc = "AttributeError" /\ result.scores = <<>>
          ELSE \E dev \in Devices :
                  [exc |-> result.exc, scores |-> result.scores]
                     = TFModel_predict(Store(i), result.rows, result.cols, dev)

\* predict was called with two index pairs on an estimator without a store
C3_Witness ==
    /\ result.op = "predict"
    /\ Store(1).null
    /\ Len(result.rows) = 2
    /\ result.exc = "AttributeError"

\* C4: after every public operation, returned or raised, the store is
\* non-null exactly when the shape is fixed, and its shape is the estimator's.
C4_StoreIffShape ==
    \A i \in Live :
       /\ Store(i).null <=> Obj(i).shape = NoShape
       /\ ~Store(i).null => Store(i).shape = Obj(i).shape

\* C5: two estimators of equal configuration that have completed the same
\* number of partial_fit calls on the same matrix hold the same history.
C5_SameSeedSameHistory ==
    \A a \in Live, b \in Live :
       (/\ Obj(a).n_iter = Obj(b).n_iter
        /\ Obj(a).batch_size = Obj(b).batch_size
        /\ Obj(a).warm_start = Obj(b).warm_start
        /\ Obj(a).random_state = Obj(b).random_state
        /\ Len(History(a)) = Len(History(b)))
       => History(a) = History(b)

\* C6: a training call whose loop raises in iteration i ends with the
\* exception, with the i losses of the completed iterations appended to what
\* history held when the loop started and with the store as the i-th step
\* left it; a loop that must fail in its first batch raises there.
C6_LoopFailureKeepsProgress ==
    [][\A i \in Instances :
          (result'.inst = i /\ result'.op \in TrainingOps)
          => LET cold  == result'.op = "fit" /\ ~Obj(i).warm_start
                 fresh == cold \/ Store(i).null
                 h0    == IF cold THEN <<>> ELSE History(i)
                 s0    == IF fresh THEN 0 ELSE Store(i).steps
             IN  /\ (result'.exc # "none"
                     /\ Len(result'.sampled) = result'.iters + 1)
                    => /\ result'.iters < Obj(i).n_iter
                       /\ Len(History(i)') = Len(h0) + result'.iters
                       /\ SubSeq(History(i)', 1, Len(h0)) = h0
                       /\ ~Store(i)'.null
                       /\ Store(i)'.steps = s0 + result'.iters
                       /\ (result'.iters = 0 /\ ~fresh)
                          => Store(i)' = Store(i)
                 /\ (~fresh /\ Obj(i).shape[1] <= 0)
                    => result'.exc = "ValueError" /\ result'.iters = 0
                 /\ (~fresh /\ Obj(i).shape[1] > 0
                     /\ result'.data.kind # "sparse")
                    => result'.exc = "TypeError" /\ result'.iters = 0
      ]_vars

\* a partial_fit has raised IndexError after at least one completed iteration
C6_Witness ==
    /\ result.op = "partial_fit"
    /\ result.exc = "IndexError"
    /\ result.iters >= 1
    /\ Len(History(1)) >= 1

\* C7: with a store of the estimator's shape (n, k), predict with every index
\* in range returns one score per pair, and predict with a row index >= n or
\* a column index >= k raises and returns no scores.
C7_PredictBounds ==
    \A i \in Instances :
       (/\ result.inst = i
        /\ result.op = "predict"
        /\ ~Store(i).null
        /\ Store(i).shape = Obj(i).shape)
       => /\ InRange(Store(i), result.rows, result.cols)
             => result.exc = "none" /\ Len(result.scores) = Len(result.rows)
          /\ (\E x \in 1..Len(result.rows) :
                 \/ result.rows[x] >= Store(i).shape[1]
                 \/ result.cols[x] >= Store(i).shape[2])
             => result.exc # "none" /\ result.scores = <<>>

\* C8: with implicit=true every target is 0 or 1 and every weight is >= 1.
C8_BinaryTargets ==
    tfcfg.implicit =>
       \A x \in 1..Len(fed) :
          /\ inputs.targets[x] \in {0, Scale}
          /\ inputs.data_weights[x] >= WeightOne

\* C9: history holds as many losses as training steps were applied to the
\* current store.
C9_HistoryOfCurrentStore ==
    \A i \in Live :
       Len(History(i)) = IF Store(i).null THEN 0 ELSE Store(i).steps

\* C10: every index the sampler drew in a training call on a matrix is a
\* valid index of the store and of that matrix.
C10_SampledInRange ==
    \A i \in Instances :
       (/\ result.inst = i
        /\ result.op \in TrainingOps
        /\ result.data.kind = "sparse")
       => \A b \in 1..Len(result.sampled) :
             LET rows == result.sampled[b][1]
                 cols == result.sampled[b][2]
             IN  /\ \A x \in 1..Len(rows) :
                       /\ rows[x] < Store(i).shape[1]
                       /\ rows[x] < result.data.shape[1]
                 /\ \A x \in 1..Len(cols) :
                       /\ cols[x] < Store(i).shape[2]
                       /\ cols[x] < result.data.shape[2]

====
